---- MODULE Spec2Model ----
(***************************************************************************)
(* Boost Dash backend (src/server.js): the lobby roster `players`, the     *)
(* session table `activeRaces`, the RaceGame state machine and the         *)
(* socket event handlers, each handler one atomic step of the Node event   *)
(* loop.                                                                   *)
(*                                                                         *)
(* Boost is kept in half points (the code adds 0.5 per action), so a boost *)
(* of 100 is the integer 200 here; H(x) converts.                          *)
(***************************************************************************)
EXTENDS Integers, Sequences, FiniteSets, Bags, TLC

(* ---------------- bounds of the model ---------------- *)
\* inbound client events handled (a run of accelerate events counts as one)
MaxEvents == 5
\* largest value Date.now() returns
MaxClock == 1
\* player-action events handled from a race already under way (RaceSpec)
RaceEvents == 2

(* ---------------- program constants ---------------- *)
WinProgress == 1000
AccelStep == 2
BoostStep == 10
BoostCost == 20
DriftBonus == 15
BoostCap == 100
BoostStart == 100

\* a boost amount in half points
H(x) == 2 * x
\* the passive regeneration of 0.5, in half points
Regen == 1

\* socket ids
Sockets == {"s1", "s2", "s3"}
\* usernames a client may send with join-lobby ("" stands for none given)
Usernames == {""}
Actions == {"accelerate", "boost", "drift-start", "drift-end"}
\* lengths of the runs of accelerate events a client sends back to back:
\* from the start line to one step short of the threshold, and onto it
RunLengths == {499, 500}
Null == "null"

VARIABLES
  conn,         \* socket ids whose connection is open
  players,      \* the roster: socket id -> username
  activeRaces,  \* the session table: roomId -> RaceGame
  timers,       \* bag of pending setTimeout cleanups
  now,          \* the last value Date.now() returned (it never runs backwards)
  out,          \* messages emitted by the last handled event, in order
  ret,          \* the session and the result of the last event's handlePlayerAction call
  challenges,   \* history: <<challenger, target>> pairs of delivered challenges
  crashed,      \* an event handler threw: the process is gone
  nEvents       \* inbound client events handled so far

vars == <<conn, players, activeRaces, timers, now, out, ret, challenges,
          crashed, nEvents>>

(* ---------------- helpers: Map operations ---------------- *)
EmptyMap == [k \in {} |-> Null]
MapSet(m, k, v) == [x \in (DOMAIN m) \cup {k} |-> IF x = k THEN v ELSE m[x]]
MapDelete(m, k) == [x \in (DOMAIN m) \ {k} |-> m[x]]

Min(a, b) == IF a < b THEN a ELSE b

\* `race_${Date.now()}`
RaceId(t) == <<"race_", t>>
RoomIds == {RaceId(t) : t \in 0..MaxClock}

\* username || `Player${socket.id.slice(-4)}` (the ids here have at most 4 characters)
DefaultName(id) == "Player" \o id
NameOf(id, username) == IF username = "" THEN DefaultName(id) ELSE username

\* an emitted message: event name, the socket ids addressed, payload
Msg(ev, to, data) == <<ev, to, data>>

(* ---------------- RaceGame ---------------- *)
NewPlayer(id) ==
  [id |-> id, progress |-> 0, boost |-> H(BoostStart), isDrifting |-> FALSE,
   username |-> players[id]]

\* a mutation of RaceGame: the constructor with its two player ids swapped
RaceGameSwapped(roomId, player1Id, player2Id, t) ==
  [roomId |-> roomId,
   player1 |-> NewPlayer(player2Id),
   player2 |-> NewPlayer(player1Id),
   startTime |-> t,
   finished |-> FALSE,
   winner |-> Null]

RaceGame(roomId, player1Id, player2Id, t) ==
  [roomId |-> roomId,
   player1 |-> NewPlayer(player1Id),
   player2 |-> NewPlayer(player2Id),
   startTime |-> t,
   finished |-> FALSE,
   winner |-> Null]

\* a mutation of Resolve: the branches of the conditional exchanged
ResolveInverted(race, playerId) ==
  IF race.player1.id = playerId THEN "player2" ELSE "player1"

\* const player = this.player1.id === playerId ? this.player1 : this.player2
Resolve(race, playerId) ==
  IF race.player1.id = playerId THEN "player1" ELSE "player2"

\* a mutation of ApplySwitch: the boost case without its `player.boost >= 20`
ApplySwitchUnguarded(p, action) ==
  CASE action = "accelerate" -> [p EXCEPT !.progress = @ + AccelStep]
    [] action = "boost" ->
         [p EXCEPT !.boost = @ - H(BoostCost), !.progress = @ + BoostStep]
    [] action = "drift-start" -> [p EXCEPT !.isDrifting = TRUE]
    [] action = "drift-end" ->
         [p EXCEPT !.isDrifting = FALSE,
                   !.boost = Min(H(BoostCap), @ + H(DriftBonus))]
    [] OTHER -> p

\* the switch statement
ApplySwitch(p, action) ==
  CASE action = "accelerate" -> [p EXCEPT !.progress = @ + AccelStep]
    [] action = "boost" ->
         IF p.boost >= H(BoostCost)
           THEN [p EXCEPT !.boost = @ - H(BoostCost), !.progress = @ + BoostStep]
           ELSE p
    [] action = "drift-start" -> [p EXCEPT !.isDrifting = TRUE]
    [] action = "drift-end" ->
         [p EXCEPT !.isDrifting = FALSE,
                   !.boost = Min(H(BoostCap), @ + H(DriftBonus))]
    [] OTHER -> p

\* a mutation of Regenerate: the addition without its Math.min
RegenerateUnclamped(p) ==
  IF ~p.isDrifting THEN [p EXCEPT !.boost = @ + Regen] ELSE p

\* a mutation of Regenerate: the addition without its `!player.isDrifting`
RegenerateAlways(p) == [p EXCEPT !.boost = Min(H(BoostCap), @ + Regen)]

\* passive boost regeneration
Regenerate(p) ==
  IF ~p.isDrifting THEN [p EXCEPT !.boost = Min(H(BoostCap), @ + Regen)] ELSE p

\* a mutation of Finishes: the winner check without its `!this.finished`
FinishesAgain(race, p) == p.progress >= WinProgress

\* the winner check: the condition under which the call finishes the race
Finishes(race, p) == p.progress >= WinProgress /\ ~race.finished

\* one call: the race afterwards and the value returned
HandlePlayerAction(race, playerId, action) ==
  LET which == Resolve(race, playerId)
      p     == Regenerate(ApplySwitch(race[which], action))
      r1    == [race EXCEPT ![which] = p]
  IN  IF Finishes(r1, p)
        THEN [race |-> [r1 EXCEPT !.finished = TRUE, !.winner = playerId],
              ret |-> TRUE]
        ELSE [race |-> r1, ret |-> FALSE]

\* n accelerate calls for the same player while the winner check stays
\* false: n times `progress += 2`, n times the regeneration
AccelerateRun(p, n) ==
  [p EXCEPT !.progress = @ + n * AccelStep,
            !.boost = IF p.isDrifting THEN @ ELSE Min(H(BoostCap), @ + n * Regen)]

\* no call of a run of n accelerate calls on player p finishes the race
RunStaysOpen(race, p, n) ==
  race.finished \/ p.progress + n * AccelStep < WinProgress

GetGameState(race) ==
  [player1 |-> race.player1, player2 |-> race.player2,
   finished |-> race.finished, winner |-> race.winner]

\* the last event made no handlePlayerAction call
NoRet == [roomId |-> <<"", 0>>, value |-> FALSE]

(* ---------------- initial state ---------------- *)
\* The server after start-up, with the clients' connections open: the
\* connection handler only registers the listeners below.
Init ==
  /\ conn = Sockets
  /\ players = EmptyMap
  /\ activeRaces = EmptyMap
  /\ timers = EmptyBag
  /\ now = 0
  /\ out = <<>>
  /\ ret = NoRet
  /\ challenges = {}
  /\ crashed = FALSE
  /\ nEvents = 0

(* ---------------- event handlers ---------------- *)
\* socket s delivers one more inbound event to the running server
Inbound(s) ==
  /\ ~crashed /\ s \in conn
  /\ nEvents < MaxEvents
  /\ nEvents' = nEvents + 1

JoinLobby(s, username) ==
  /\ Inbound(s)
  /\ players' = MapSet(players, s, NameOf(s, username))
  /\ out' = <<Msg("online-players", conn, players')>>
  /\ ret' = NoRet
  /\ UNCHANGED <<conn, activeRaces, timers, now, challenges, crashed>>

\* a mutation of ChallengePlayer: only the challenger is looked up before the
\* challenge is sent
ChallengePlayerUnchecked(s, targetPlayerId) ==
  /\ Inbound(s)
  /\ IF s \notin DOMAIN players
       THEN /\ out' = <<Msg("error", {s}, "Player not found")>>
            /\ UNCHANGED challenges
       ELSE /\ out' = <<Msg("challenge-received", {targetPlayerId},
                            [challengerId |-> s, challengerName |-> players[s]]),
                        Msg("challenge-sent", {s}, Null)>>
            /\ challenges' = challenges \cup {<<s, targetPlayerId>>}
  /\ ret' = NoRet
  /\ UNCHANGED <<conn, players, activeRaces, timers, now, crashed>>

ChallengePlayer(s, targetPlayerId) ==
  /\ Inbound(s)
  /\ IF s \notin DOMAIN players \/ targetPlayerId \notin DOMAIN players
       THEN /\ out' = <<Msg("error", {s}, "Player not found")>>
            /\ UNCHANGED challenges
       ELSE /\ out' = <<Msg("challenge-received", {targetPlayerId},
                            [challengerId |-> s, challengerName |-> players[s]]),
                        Msg("challenge-sent", {s}, players[targetPlayerId])>>
            /\ challenges' = challenges \cup {<<s, targetPlayerId>>}
  /\ ret' = NoRet
  /\ UNCHANGED <<conn, players, activeRaces, timers, now, crashed>>

\* t is what Date.now() returns when a session is created (the reads of the
\* handler and of the constructor fall in the same millisecond); the clock
\* is not read when the challenge is refused
AcceptChallenge(s, challengerId, t) ==
  /\ Inbound(s)
  /\ IF s \notin DOMAIN players \/ challengerId \notin DOMAIN players
       THEN /\ out' = <<Msg("error", {s}, "Player not available")>>
            /\ t = now
            /\ UNCHANGED <<players, activeRaces, now>>
       ELSE /\ now' = t
            /\ LET raceId == RaceId(t)
                   race   == RaceGame(raceId, challengerId, s, t)
               IN  /\ activeRaces' = MapSet(activeRaces, raceId, race)
                   /\ players' = MapDelete(MapDelete(players, challengerId), s)
                   /\ out' = <<Msg("race-start", {challengerId, s},
                                   [roomId |-> raceId, player1 |-> race.player1,
                                    player2 |-> race.player2]),
                               Msg("online-players", conn, players')>>
  /\ ret' = NoRet
  /\ UNCHANGED <<conn, timers, challenges, crashed>>

\* players entries hold no `socket` field, so challenger.socket.emit throws a
\* TypeError nothing catches: the process exits, and with it the
\* connections, both maps and the pending timers
DeclineChallenge(s, challengerId) ==
  /\ Inbound(s)
  /\ IF challengerId \in DOMAIN players
       THEN /\ crashed' = TRUE
            /\ conn' = {}
            /\ players' = EmptyMap
            /\ activeRaces' = EmptyMap
            /\ timers' = EmptyBag
       ELSE UNCHANGED <<crashed, conn, players, activeRaces, timers>>
  /\ out' = <<>>
  /\ ret' = NoRet
  /\ UNCHANGED <<now, challenges>>

\* the deferred cleanup's closure: the roomId and the race object it captured
Cleanup(roomId, race) ==
  [roomId |-> roomId,
   p1 |-> [id |-> race.player1.id, username |-> race.player1.username],
   p2 |-> [id |-> race.player2.id, username |-> race.player2.username]]

\* what the player-action handler does once the race has been updated
AfterAction(roomId, race, raceFinished) ==
  /\ activeRaces' = [activeRaces EXCEPT ![roomId] = race]
  /\ ret' = [roomId |-> roomId, value |-> raceFinished]
  /\ out' = <<Msg("game-update", {race.player1.id, race.player2.id},
                  GetGameState(race))>>
  /\ timers' = IF raceFinished
                 THEN timers (+) SetToBag({Cleanup(roomId, race)})
                 ELSE timers

\* one player-action event {roomId, action} from socket s
PlayerAction(s, roomId, action) ==
  /\ Inbound(s)
  /\ IF roomId \in DOMAIN activeRaces
       THEN LET res == HandlePlayerAction(activeRaces[roomId], s, action)
            IN  AfterAction(roomId, res.race, res.ret)
       ELSE /\ out' = <<>>
            /\ ret' = NoRet
            /\ UNCHANGED <<activeRaces, timers>>
  /\ UNCHANGED <<conn, players, now, challenges, crashed>>

\* n accelerate events {roomId, "accelerate"} from socket s, handled back to
\* back: the first n - 1 calls finish nothing, the last is handled as above
PlayerActionRun(s, roomId, n) ==
  /\ Inbound(s)
  /\ roomId \in DOMAIN activeRaces
  /\ LET race   == activeRaces[roomId]
         which  == Resolve(race, s)
         before == [race EXCEPT ![which] = AccelerateRun(race[which], n - 1)]
         res    == HandlePlayerAction(before, s, "accelerate")
     IN  /\ RunStaysOpen(race, race[which], n - 1)
         /\ AfterAction(roomId, res.race, res.ret)
  /\ UNCHANGED <<conn, players, now, challenges, crashed>>

\* a mutation of CleanupTimer: the callback without its activeRaces.delete
CleanupTimerKeepsRace(c) ==
  /\ ~crashed /\ BagIn(c, timers)
  /\ timers' = timers (-) SetToBag({c})
  /\ players' = MapSet(MapSet(players, c.p1.id, c.p1.username),
                       c.p2.id, c.p2.username)
  /\ out' = <<Msg("online-players", conn, players')>>
  /\ ret' = NoRet
  /\ UNCHANGED <<conn, activeRaces, now, challenges, crashed, nEvents>>

\* the setTimeout callback of player-action, some time after it was scheduled
CleanupTimer(c) ==
  /\ ~crashed /\ BagIn(c, timers)
  /\ timers' = timers (-) SetToBag({c})
  /\ activeRaces' = MapDelete(activeRaces, c.roomId)
  /\ players' = MapSet(MapSet(players, c.p1.id, c.p1.username),
                       c.p2.id, c.p2.username)
  /\ out' = <<Msg("online-players", conn, players')>>
  /\ ret' = NoRet
  /\ UNCHANGED <<conn, now, challenges, crashed, nEvents>>

InRace(race, s) == race.player1.id = s \/ race.player2.id = s
RacesOf(s) == {id \in DOMAIN activeRaces : InRace(activeRaces[id], s)}
\* Map iteration is in insertion order; keys are inserted with a
\* non-decreasing clock, so the first match is the match with the least clock
FirstRaceOf(s) ==
  CHOOSE id \in RacesOf(s) : \A other \in RacesOf(s) : id[2] <= other[2]

Disconnect(s) ==
  /\ Inbound(s)
  /\ conn' = conn \ {s}
  /\ players' = MapDelete(players, s)
  /\ LET roster == IF s \in DOMAIN players
                     THEN <<Msg("online-players", conn', players')>>
                     ELSE <<>>
     IN  IF RacesOf(s) # {}
           THEN LET raceId == FirstRaceOf(s)
                    race   == activeRaces[raceId]
                    otherPlayerId == IF race.player1.id = s
                                       THEN race.player2.id
                                       ELSE race.player1.id
                IN  /\ activeRaces' = MapDelete(activeRaces, raceId)
                    /\ out' = Append(roster,
                                     Msg("opponent-disconnected", {otherPlayerId}, ""))
           ELSE /\ out' = roster
                /\ UNCHANGED activeRaces
  /\ ret' = NoRet
  /\ UNCHANGED <<timers, now, challenges, crashed>>

Next ==
  \/ \E s \in Sockets, u \in Usernames : JoinLobby(s, u)
  \/ \E s \in Sockets, t \in Sockets : ChallengePlayer(s, t)
  \/ \E s \in Sockets, c \in Sockets, t \in now..MaxClock : AcceptChallenge(s, c, t)
  \/ \E s \in Sockets, c \in Sockets : DeclineChallenge(s, c)
  \/ \E s \in Sockets, r \in RoomIds, a \in Actions : PlayerAction(s, r, a)
  \/ \E s \in Sockets, r \in RoomIds, n \in RunLengths : PlayerActionRun(s, r, n)
  \/ \E s \in Sockets : Disconnect(s)
  \/ \E c \in BagToSet(timers) : CleanupTimer(c)

Spec == Init /\ [][Next]_vars

(* ---------------- a race under way ---------------- *)
\* progress of the first player when the window opens: early in the race,
\* and one accelerate short of the threshold
RaceProgress == {50, 998}

\* the second player when the window opens: past the start, boost below the cap
RaceRival ==
  [id |-> "s2", progress |-> 50, boost |-> H(50), isDrifting |-> FALSE,
   username |-> DefaultName("s2")]

\* a session between s1 and s2 some events after its creation at clock 0.
\* Every boost value is possible from progress 50 on: five boosts while
\* drifting bring boost to 0, refused boosts raise it by 0.5 without
\* progress, drift-end adds 15.5, and accelerate while drifting adds progress
\* alone.
MidRace(progress, boost, isDrifting) ==
  [roomId |-> RaceId(0),
   player1 |-> [id |-> "s1", progress |-> progress, boost |-> boost,
                isDrifting |-> isDrifting, username |-> DefaultName("s1")],
   player2 |-> RaceRival,
   startTime |-> 0,
   finished |-> FALSE,
   winner |-> Null]

RaceInit ==
  /\ conn = Sockets
  /\ players = EmptyMap
  /\ \E progress \in RaceProgress, boost \in 0..H(BoostCap), isDrifting \in BOOLEAN :
       activeRaces = MapSet(EmptyMap, RaceId(0), MidRace(progress, boost, isDrifting))
  /\ timers = EmptyBag
  /\ now = 0
  /\ out = <<>>
  /\ ret = NoRet
  /\ challenges = {}
  /\ crashed = FALSE
  /\ nEvents = MaxEvents - RaceEvents

RaceNext == \E s \in Sockets, a \in Actions : PlayerAction(s, RaceId(0), a)

RaceSpec == RaceInit /\ [][RaceNext]_vars

\* a timer that was set runs once its delay is over: Node's event loop calls
\* the callback of every pending setTimeout while the process lives
TimersRun == \E c \in BagToSet(timers) : CleanupTimer(c)
FairSpec == Spec /\ WF_vars(TimersRun)

(* ======================= the claims ======================= *)
\* the step creates a session under roomId r
Creates(r) == \E s, c \in DOMAIN players : AcceptChallenge(s, c, r[2])

\* the participant other than s, as the disconnect handler picks it
OtherOf(race, s) == IF race.player1.id = s THEN race.player2.id ELSE race.player1.id

\* C1: whenever a session in the table is finished, its winner is set and is
\* the id of one of its two players.
C1_FinishedHasParticipantWinner ==
  \A r \in DOMAIN activeRaces :
    LET g == activeRaces[r]
    IN  g.finished => (g.winner # Null /\ g.winner \in {g.player1.id, g.player2.id})

\* C2: a player-action from a socket that is neither player of the session
\* changes nothing in the session (progress, boost, isDrifting of both
\* players, finished, winner) and reports no finish.
C2_OutsiderActionIsNoOp ==
  [][\A s \in Sockets, r \in RoomIds, a \in Actions :
       (PlayerAction(s, r, a) /\ r \in DOMAIN activeRaces
          /\ ~InRace(activeRaces[r], s))
       => (activeRaces'[r] = activeRaces[r] /\ ~ret'.value)]_vars

\* C3: while a session lives, finished never returns to false and the winner
\* of a finished session never changes; a step turns finished from false to
\* true exactly when the handlePlayerAction call it makes on that session
\* returns true (so true is returned once, by the call that finishes).
C3_FinishesExactlyOnce ==
  [][\A r \in RoomIds :
       (r \in DOMAIN activeRaces /\ r \in DOMAIN activeRaces' /\ ~Creates(r))
       => LET a == activeRaces[r]
              b == activeRaces'[r]
          IN  /\ a.finished => (b.finished /\ b.winner = a.winner)
              /\ (~a.finished /\ b.finished) <=> (ret'.roomId = r /\ ret'.value)
    ]_vars

\* C3 witness: a call was made on a session that had already finished, and
\* it returned false.
C3_Witness ==
  \E r \in DOMAIN activeRaces :
    LET g == activeRaces[r]
    IN  /\ g.finished /\ ret.roomId = r /\ ~ret.value
        /\ g.player1.id # g.player2.id
        /\ \E p \in {g.player1, g.player2} : p.progress > WinProgress

\* C4: a session is finished exactly when one of its players has progress
\* >= 1000, and the winner of a finished session is a player of it whose
\* progress is >= 1000 (the one whose action reached the threshold).
C4_WinnerReachedThreshold ==
  \A r \in DOMAIN activeRaces :
    LET g == activeRaces[r]
    IN  /\ g.finished <=> (g.player1.progress >= WinProgress
                             \/ g.player2.progress >= WinProgress)
        /\ g.finished =>
             \E p \in {g.player1, g.player2} :
               p.id = g.winner /\ p.progress >= WinProgress

\* C5: a deferred cleanup that fires for a roomId no longer in the session
\* table changes neither the session table nor the roster.
C5_LateCleanupIsNoOp ==
  [][\A c \in BagToSet(timers) :
       (CleanupTimer(c) /\ c.roomId \notin DOMAIN activeRaces)
       => (activeRaces' = activeRaces /\ players' = players)]_vars

\* C6: the disconnect of a participant removes every session it takes part
\* in from the table and sends exactly one opponent-disconnected message,
\* addressed to the other participant and not to the socket that left.
C6_DisconnectTearsDown ==
  [][\A s \in Sockets :
       Disconnect(s) =>
         \A r \in RacesOf(s) :
           LET notes == SelectSeq(out', LAMBDA m : m[1] = "opponent-disconnected")
           IN  /\ r \notin DOMAIN activeRaces'
               /\ Len(notes) = 1
               /\ notes[1][2] = {OtherOf(activeRaces[r], s)}
               /\ s \notin notes[1][2]]_vars

\* C7: every socket id is a player of at most one session of the table.
C7_AtMostOneSession ==
  \A s \in Sockets : Cardinality(RacesOf(s)) <= 1

\* C8: no player of a session of the table is in the roster.
C8_RacersNotInRoster ==
  \A r \in DOMAIN activeRaces :
    /\ activeRaces[r].player1.id \notin DOMAIN players
    /\ activeRaces[r].player2.id \notin DOMAIN players

\* C9: an accepted challenge stores its session under a roomId no session
\* of the table has, and leaves every session of the table in place.
C9_FreshRoomId ==
  [][\A s, c \in DOMAIN players, t \in 0..MaxClock :
       AcceptChallenge(s, c, t) =>
         /\ RaceId(t) \notin DOMAIN activeRaces
         /\ \A r \in DOMAIN activeRaces :
              r \in DOMAIN activeRaces' /\ activeRaces'[r] = activeRaces[r]]_vars

\* C10: an accept-challenge from T naming C creates a session only if C has
\* sent T a challenge before.
C10_AcceptNeedsChallenge ==
  [][\A s, c \in DOMAIN players, t \in 0..MaxClock :
       AcceptChallenge(s, c, t) => <<c, s>> \in challenges]_vars

\* a player as the constructor leaves it: progress 0, boost 100, not drifting
AtStart(p, id) ==
  /\ p.id = id /\ p.progress = 0 /\ p.boost = H(100) /\ ~p.isDrifting

\* C11: when B accepts the challenge of A, A and B two different roster
\* players, the step puts one session into the table, player1 = A and
\* player2 = B as the constructor leaves them, not finished and without
\* winner, and touches no other entry of the table; A and B leave the roster
\* (nobody else does); one race-start message carrying the session's roomId
\* is sent, addressed to A and B.
C11_AcceptCreatesSession ==
  [][\A b, a \in DOMAIN players, t \in 0..MaxClock :
       (AcceptChallenge(b, a, t) /\ a # b /\ <<a, b>> \in challenges)
       => LET starts == SelectSeq(out', LAMBDA m : m[1] = "race-start")
              r == starts[1][3].roomId
              g == activeRaces'[r]
          IN  /\ Len(starts) = 1
              /\ starts[1][2] = {a, b}
              /\ r \in DOMAIN activeRaces'
              /\ AtStart(g.player1, a) /\ AtStart(g.player2, b)
              /\ ~g.finished /\ g.winner = Null
              /\ \A q \in (DOMAIN activeRaces \cup DOMAIN activeRaces') \ {r} :
                    /\ q \in DOMAIN activeRaces /\ q \in DOMAIN activeRaces'
                    /\ activeRaces'[q] = activeRaces[q]
              /\ DOMAIN players' = DOMAIN players \ {a, b}
              /\ \A x \in DOMAIN players' : players'[x] = players[x]]_vars

\* C11 witness: A challenged B, B accepted, and the accept was the last event
C11_Witness ==
  \E a, b \in Sockets :
    /\ a # b /\ <<a, b>> \in challenges
    /\ Len(out) = 2 /\ out[1][1] = "race-start" /\ out[1][2] = {a, b}
    /\ out[1][3].roomId \in DOMAIN activeRaces
    /\ activeRaces[out[1][3].roomId].player1.id = a
    /\ activeRaces[out[1][3].roomId].player2.id = b

\* C12: a challenge-player event whose target is not in the roster sends one
\* message, an error addressed to the sender alone, sends no
\* challenge-received, and leaves the roster and the session table as they
\* were.
C12_UnknownTargetIsError ==
  [][\A s, target \in Sockets :
       (ChallengePlayer(s, target) /\ target \notin DOMAIN players)
       => /\ Len(out') = 1
          /\ out'[1][1] = "error" /\ out'[1][2] = {s}
          /\ \A i \in DOMAIN out' : out'[i][1] # "challenge-received"
          /\ players' = players
          /\ activeRaces' = activeRaces]_vars

\* C12 witness: a roster player's challenge was answered with the error, so
\* it was the target that was missing
C12_Witness ==
  \E s \in DOMAIN players : out = <<Msg("error", {s}, "Player not found")>>

\* C13: a decline-challenge event naming a challenger who is in the roster
\* sends exactly one message, challenge-declined addressed to that
\* challenger, and the handler returns normally; and no handler ever ends in
\* an uncaught error.
C13_DeclineNotifiesChallenger ==
  [][/\ \A s, c \in Sockets :
          (DeclineChallenge(s, c) /\ c \in DOMAIN players)
          => /\ Len(out') = 1
             /\ out'[1][1] = "challenge-declined" /\ out'[1][2] = {c}
     /\ ~crashed']_vars

\* C14: provided pending timers run, every finished session of the table is
\* eventually out of the table; and the cleanup of a session whose two
\* players are both still connected leaves the table without that roomId
\* and the roster with both players.
C14_FinishedEventuallyRemoved ==
  /\ \A r \in RoomIds :
       (r \in DOMAIN activeRaces /\ activeRaces[r].finished)
         ~> (r \notin DOMAIN activeRaces)
  /\ [][\A c \in BagToSet(timers) :
          (CleanupTimer(c) /\ {c.p1.id, c.p2.id} \subseteq conn)
          => /\ c.roomId \notin DOMAIN activeRaces'
             /\ c.p1.id \in DOMAIN players' /\ c.p2.id \in DOMAIN players']_vars

\* C14 witness: a session was created at the current clock value and is gone
\* although no socket ever disconnected and the server runs, so it finished
\* and its cleanup has run; no cleanup is pending and two players are in the
\* roster
C14_Witness ==
  /\ now > 0 /\ RaceId(now) \notin DOMAIN activeRaces
  /\ conn = Sockets /\ ~crashed /\ timers = EmptyBag
  /\ \E a, b \in DOMAIN players : a # b

(* ---- the claims about handlePlayerAction, checked under RaceSpec ---- *)
\* the player of the session whose id is s
Mine(race, s) == CHOOSE w \in {"player1", "player2"} : race[w].id = s
Other(w) == IF w = "player1" THEN "player2" ELSE "player1"
\* the session the window is about
TheRace == activeRaces[RaceId(0)]
\* events handled since the window opened
Handled == nEvents - (MaxEvents - RaceEvents)

\* C15: the boost of every player of every session is at least 0 and at
\* most 100.
C15_BoostInRange ==
  \A r \in DOMAIN activeRaces :
    \A w \in {"player1", "player2"} :
      0 <= activeRaces[r][w].boost /\ activeRaces[r][w].boost <= H(100)

\* C15 witness: one event was handled, a boost by s1 (its progress is 10
\* more than a starting value), and it took the last 20 points: boost is 0
C15_Witness ==
  /\ Handled = 1 /\ ret.roomId = RaceId(0)
  /\ TheRace.player2 = RaceRival
  /\ TheRace.player1.boost = 0
  /\ \E x \in RaceProgress : TheRace.player1.progress = x + 10

\* C16: a boost action by a participant whose boost is below 20 leaves its
\* progress unchanged and adds to its boost only the regeneration (0.5 when
\* it is not drifting, nothing when it is); with a boost of 20 or more it
\* adds 10 to progress and takes 20 from boost before that regeneration.
C16_BoostAction ==
  [][\A s \in Sockets, r \in DOMAIN activeRaces :
       (PlayerAction(s, r, "boost") /\ InRace(activeRaces[r], s))
       => LET p == activeRaces[r][Mine(activeRaces[r], s)]
              q == activeRaces'[r][Mine(activeRaces[r], s)]
              regen == IF p.isDrifting THEN 0 ELSE 1
          IN  IF p.boost < H(20)
                THEN q.progress = p.progress /\ q.boost = p.boost + regen
                ELSE q.progress = p.progress + 10
                     /\ q.boost = p.boost - H(20) + regen]_vars

\* C16 witness: one event was handled, by s1 (the other player is as it
\* was), and left s1 with the same progress, not drifting and a boost of 10:
\* a boost refused at 9.5 (the only other action that keeps progress and
\* ends not drifting, drift-end, leaves 15.5 or more)
C16_Witness ==
  /\ Handled = 1 /\ ret.roomId = RaceId(0)
  /\ TheRace.player2 = RaceRival
  /\ TheRace.player1.progress \in RaceProgress
  /\ ~TheRace.player1.isDrifting
  /\ TheRace.player1.boost = H(10)

\* what the switch leaves of the boost of player p, as C16 and C17 state it
BoostAfterSwitch(p, a) ==
  CASE a = "boost" /\ p.boost >= H(20) -> p.boost - H(20)
    [] a = "drift-end" -> IF p.boost + H(15) > H(100) THEN H(100) ELSE p.boost + H(15)
    [] OTHER -> p.boost

\* C17: drift-end by a participant ends its drift; and whatever the action,
\* the acting participant's boost afterwards is what the switch left (for
\* drift-end: 15 more, at most 100), plus 0.5 up to 100 exactly when it is
\* not drifting at the end of the action.
C17_DriftEndAndRegen ==
  [][\A s \in Sockets, r \in DOMAIN activeRaces, a \in Actions :
       (PlayerAction(s, r, a) /\ InRace(activeRaces[r], s))
       => LET p == activeRaces[r][Mine(activeRaces[r], s)]
              q == activeRaces'[r][Mine(activeRaces[r], s)]
              b == BoostAfterSwitch(p, a)
          IN  /\ a = "drift-end" => ~q.isDrifting
              /\ a = "drift-start" => q.isDrifting
              /\ q.boost = IF q.isDrifting THEN b
                           ELSE IF b + 1 > H(100) THEN H(100) ELSE b + 1]_vars

\* C17 witness: one event was handled, by s1 (the other player is as it
\* was), and left s1 with the same progress, not drifting and a boost of
\* 65.5: a drift-end at boost 50
C17_Witness ==
  /\ Handled = 1 /\ ret.roomId = RaceId(0)
  /\ TheRace.player2 = RaceRival
  /\ TheRace.player1.progress \in RaceProgress
  /\ ~TheRace.player1.isDrifting
  /\ TheRace.player1.boost = H(65) + 1

\* C18: an accelerate action by a participant adds exactly 2 to its progress
\* and leaves the other player's progress as it was; and no step lowers the
\* progress of a player of a session, finished or not.
C18_AccelerateAndMonotone ==
  [][/\ \A s \in Sockets, r \in DOMAIN activeRaces :
          (PlayerAction(s, r, "accelerate") /\ InRace(activeRaces[r], s))
          => LET w == Mine(activeRaces[r], s)
             IN  /\ activeRaces'[r][w].progress = activeRaces[r][w].progress + 2
                 /\ activeRaces'[r][Other(w)].progress
                      = activeRaces[r][Other(w)].progress
     /\ \A r \in DOMAIN activeRaces \cap DOMAIN activeRaces' :
          \A w \in {"player1", "player2"} :
            activeRaces'[r][w].progress >= activeRaces[r][w].progress]_vars

\* C18 witness: two events by s1 from progress 998: the first accelerate
\* finished the race at 1000, the second came after the finish and still
\* added 2
C18_Witness ==
  /\ Handled = 2 /\ ret.roomId = RaceId(0) /\ ~ret.value
  /\ TheRace.player2 = RaceRival
  /\ TheRace.finished /\ TheRace.winner = "s1"
  /\ TheRace.player1.progress = 1002

(* ---- the claims about teardown and matchmaking, checked under Spec ---- *)
\* C19: when a disconnect removes an unfinished session, the other
\* participant, a different socket that is still connected, is in the roster
\* after the step.
C19_DisconnectReturnsOpponent ==
  [][\A s \in Sockets :
       Disconnect(s) =>
         \A r \in RacesOf(s) :
           LET g == activeRaces[r]
               o == OtherOf(g, s)
           IN  (r \notin DOMAIN activeRaces' /\ ~g.finished /\ o # s /\ o \in conn)
               => o \in DOMAIN players']_vars

\* C20: the two players of every session of the table are different
\* sockets.
C20_DistinctParticipants ==
  \A r \in DOMAIN activeRaces :
    activeRaces[r].player1.id # activeRaces[r].player2.id

====
